---------------------------- MODULE Spec2Model ----------------------------
(***************************************************************************)
(* Model of src/index.tsx: the terminal tutor's virtual file system, the   *)
(* client-side `cd`, and the command loop around the chat session.         *)
(*                                                                         *)
(* Strings.  A JavaScript string is modelled as a sequence of lexemes:     *)
(* an indivisible piece of text such as "cd", "documents", "..", "~", the  *)
(* separator "/" or one blank " ".  <<"cd", " ", "..", "/", "music">> is   *)
(* the string "cd ../music" and <<"cd", "music">> the string "cdmusic".    *)
(* trim, split and join are computed on these sequences as JavaScript      *)
(* computes them on characters.  S(t) is the string made of the lexeme t.  *)
(***************************************************************************)
EXTENDS Integers, Sequences, FiniteSets, TLC

VARIABLES
    fileSystem,     \* the tree object (src/index.tsx:14)
    currentPath,    \* array of path parts (src/index.tsx:34)
    phase,          \* where main() stands: "loading", "ready", "initFailed", "fatal"
    chat,           \* the active Chat object, or Undefined (src/index.tsx:45)
    created,        \* number of Chat objects created so far (identity of a session)
    promptText,     \* promptElement.textContent
    inputDisabled,  \* terminalInput.disabled
    inputValue,     \* terminalInput.value
    pending,        \* sendMessage calls awaited by a suspended runCommand
    appended,       \* lines appended to terminalOutput by the latest handler run
    lastRun,        \* how the latest runCommand call ended or stands
    scenario        \* history: progress through the command sequence of C12

vars == <<fileSystem, currentPath, phase, chat, created, promptText,
          inputDisabled, inputValue, pending, appended, lastRun, scenario>>

----------------------------------------------------------------------------
(* Bounds of the model. *)

MaxSegs == 2

MaxSessions == 4

----------------------------------------------------------------------------
(* JavaScript values and strings. *)

Undefined == [jsUndefined |-> TRUE]

S(t) == <<t>>

EmptyStr == <<>>

\* obj[name]: the own property, or undefined; property names of the modelled
\* objects are single lexemes.
Prop(obj, name) ==
    IF Len(name) = 1 /\ name[1] \in DOMAIN obj THEN obj[name[1]] ELSE Undefined

Truthy(v) == v # Undefined

\* obj.type === t
HasType(obj, t) == "type" \in DOMAIN obj /\ obj.type = t

IndexOf(s, t) ==
    IF \E i \in 1..Len(s) : s[i] = t
    THEN CHOOSE i \in 1..Len(s) : s[i] = t /\ \A j \in 1..(i - 1) : s[j] # t
    ELSE 0

\* String.prototype.split(sep) for a one-lexeme separator.
RECURSIVE Split(_, _)
Split(s, sep) ==
    LET i == IndexOf(s, sep)
    IN  IF i = 0 THEN <<s>>
        ELSE <<SubSeq(s, 1, i - 1)>> \o Split(SubSeq(s, i + 1, Len(s)), sep)

RECURSIVE TrimStart(_)
TrimStart(s) ==
    IF s # <<>> /\ Head(s) = " " THEN TrimStart(Tail(s)) ELSE s

RECURSIVE TrimEnd(_)
TrimEnd(s) ==
    IF s # <<>> /\ s[Len(s)] = " " THEN TrimEnd(SubSeq(s, 1, Len(s) - 1)) ELSE s

\* String.prototype.trim()
Trim(s) == TrimEnd(TrimStart(s))

\* String.prototype.split(/\s+/): a run of blanks is one separator.
RECURSIVE SplitWs(_)
SplitWs(s) ==
    LET i == IndexOf(s, " ")
    IN  IF i = 0 THEN <<s>>
        ELSE <<SubSeq(s, 1, i - 1)>> \o SplitWs(TrimStart(SubSeq(s, i + 1, Len(s))))

\* Array.prototype.join(sep)
RECURSIVE Join(_, _)
Join(parts, sep) ==
    IF parts = <<>> THEN EmptyStr
    ELSE IF Len(parts) = 1 THEN parts[1]
    ELSE parts[1] \o sep \o Join(Tail(parts), sep)

StartsWith(s, t) == Len(s) >= 1 /\ s[1] = t

----------------------------------------------------------------------------
(* The file system. *)

File == [type |-> "file"]

Dir(children) == [type |-> "dir", children |-> children]

NoChildren == <<>>

\* The seed layout, src/index.tsx:14-33.  fileSystem is the wrapper object
\* whose only property is '~'.
SeedFileSystem ==
    "~" :> Dir("documents" :> Dir("report.docx" :> File)
               @@ "images" :> Dir("photo.jpg" :> File @@ "vacation.png" :> File)
               @@ "music" :> Dir(NoChildren)
               @@ "file1.txt" :> File)

\* The loop of getDirectory from `level` over `parts`.  The result is
\* [kind |-> "return", value |-> v] (v may be Undefined), [kind |-> "null"],
\* or [kind |-> "throw"]: reading property '~' of undefined is a TypeError.
RECURSIVE Walk(_, _)
Walk(level, parts) ==
    IF parts = <<>> THEN [kind |-> "return", value |-> level]
    ELSE LET part == Head(parts)
         IN  IF part = S("~")
             THEN IF level = Undefined THEN [kind |-> "throw"]
                  ELSE Walk(Prop(level, S("~")), Tail(parts))
             ELSE IF /\ Truthy(level)
                     /\ HasType(level, "dir")
                     /\ Truthy(Prop(level.children, part))
                  THEN Walk(Prop(level.children, part), Tail(parts))
                  ELSE [kind |-> "null"]

getDirectory(fs, pathParts) == Walk(fs, pathParts)

\* The normalisation loop of handleCd with an unguarded pop(): '..' at the
\* root removes the home sentinel too.
RECURSIVE ResolvePopsHome(_, _)
ResolvePopsHome(resolvedPath, parts) ==
    IF parts = <<>> THEN resolvedPath
    ELSE LET part == Head(parts)
             next == IF part = S("..")
                     THEN SubSeq(resolvedPath, 1, Len(resolvedPath) - 1)
                     ELSE IF part # S(".") /\ part # EmptyStr
                          THEN Append(resolvedPath, part)
                          ELSE resolvedPath
         IN  ResolvePopsHome(next, Tail(parts))

\* The normalisation loop of handleCd (lines 213-220).
RECURSIVE Resolve(_, _)
Resolve(resolvedPath, parts) ==
    IF parts = <<>> THEN resolvedPath
    ELSE LET part == Head(parts)
             next == IF part = S("..")
                     THEN IF Len(resolvedPath) > 1
                          THEN SubSeq(resolvedPath, 1, Len(resolvedPath) - 1)
                          ELSE resolvedPath
                     ELSE IF part # S(".") /\ part # EmptyStr
                          THEN Append(resolvedPath, part)
                          ELSE resolvedPath
         IN  Resolve(next, Tail(parts))

\* Line 212 without the test for a leading '~': every argument is taken as
\* relative to the current path.
newPathPartsAlwaysRelative(path, arg) == path \o Split(arg, "/")

newPathParts(path, arg) ==
    IF StartsWith(arg, "~") THEN Split(arg, "/") ELSE path \o Split(arg, "/")

\* handleCd without the `targetDir.type === 'dir'` test of line 223: any node
\* found is taken for a directory.
cdResultAnyNode(fs, path, arg) ==
    IF arg = EmptyStr \/ arg = S("~")
    THEN [outcome |-> "ok", path |-> <<S("~")>>]
    ELSE LET resolvedPath == Resolve(<<>>, newPathParts(path, arg))
             targetDir == getDirectory(fs, resolvedPath)
         IN  IF targetDir.kind = "throw"
             THEN [outcome |-> "throw", path |-> path]
             ELSE IF targetDir.kind = "return" /\ Truthy(targetDir.value)
                  THEN [outcome |-> "ok", path |-> resolvedPath]
                  ELSE [outcome |-> "noSuchDir", path |-> path]

\* The navigation part of handleCd (lines 209-229): what becomes of
\* currentPath.  outcome "ok" commits path; "noSuchDir" appends the error
\* line and returns; "throw" leaves handleCd by the TypeError of getDirectory.
cdResult(fs, path, arg) ==
    IF arg = EmptyStr \/ arg = S("~")
    THEN [outcome |-> "ok", path |-> <<S("~")>>]
    ELSE LET resolvedPath == Resolve(<<>>, newPathParts(path, arg))
             targetDir == getDirectory(fs, resolvedPath)
         IN  IF targetDir.kind = "throw"
             THEN [outcome |-> "throw", path |-> path]
             ELSE IF /\ targetDir.kind = "return"
                     /\ Truthy(targetDir.value)
                     /\ HasType(targetDir.value, "dir")
                  THEN [outcome |-> "ok", path |-> resolvedPath]
                  ELSE [outcome |-> "noSuchDir", path |-> path]

\* Lines 232-233.
displayPath(path) ==
    IF Len(path) = 1 THEN S("~") ELSE S("~") \o S("/") \o Join(Tail(path), S("/"))

promptFor(path) == S("user@gemini:") \o displayPath(path) \o S("$")

\* getSystemInstruction (lines 49-57): the text names the path and embeds
\* the serialised tree between fixed sentences.
getSystemInstruction(fs, pathString) == [path |-> pathString, tree |-> fs]

errorLine(text) == [type |-> "error", text |-> text]

responseLine(text) == [type |-> "response", text |-> text]

commandLine(prompt, text) == [type |-> "command", prompt |-> prompt, text |-> text]

cdErrorText(arg) == S("bash: cd: ") \o arg \o S(": No such file or directory")

contextErrorText ==
    S("Error: Failed to update context for new directory. Terminal may not respond correctly.")

initFailedText ==
    S("Critical Error: Could not initialize AI model. The app is non-functional. Please check your API key and network connection, then refresh the page.")

----------------------------------------------------------------------------
(* What the user can enter. *)

\* Path segments the generated cd arguments are made of, one of each kind
\* the code tells apart: a directory, a file, a name absent from the tree,
\* '..', the home sentinel and the empty segment of '//' or a trailing '/'.
SegAlphabet ==
    {EmptyStr, S("~"), S(".."), S("documents"), S("file1.txt"), S("nosuch")}

SegLists == UNION {[1..n -> SegAlphabet] : n \in 1..MaxSegs}

CdArgs == {Join(segs, S("/")) : segs \in SegLists}

\* Further cd lines: the other names of the tree, '.', blanks around and
\* between the words, and longer paths.
ScenarioLines ==
    {<<"cd">>,
     <<"cd", " ", "music">>,
     <<"cd", " ", "images">>,
     <<"cd", " ", "..", "/", "images">>,
     <<"cd", " ", "..", "/", "..", "/", "..">>,
     <<"cd", " ", "report.docx">>,
     <<"cd", " ", "documents", "/", "report.docx">>,
     <<"cd", " ", ".">>,
     <<"cd", " ", ".", "/", "documents">>,
     <<"cd", " ", "documents", "/", ".", "/", "..">>,
     <<"cd", " ", "~", "/", "images">>,
     <<"cd", " ", "~", "/", "music">>,
     <<"cd", " ", "~", "/", "images", "/">>,
     <<"cd", " ", "~", "/", "~", "/", "~">>,
     <<"cd", " ", "documents", "/", "~", "/", "~">>,
     <<"cd", " ", "~", "music">>,
     <<"cd", " ", "~", "music", "/", "..">>,
     <<" ", "cd", " ", " ", "music", " ">>,
     <<"cd", " ", "music", " ", "images">>}

CdLines == {S("cd") \o S(" ") \o arg : arg \in CdArgs} \cup ScenarioLines

RemoteLines ==
    {S("ls"), S("pwd"), <<"ls", " ", "documents">>, <<" ", "ls", " ">>,
     <<"cd", "music">>}

BlankLines == {EmptyStr, S(" ")}

Lines == CdLines \cup RemoteLines \cup BlankLines

\* data-command of the command bubbles.
Bubbles == {S("ls")}

\* response.text of a fulfilled sendMessage, and the message of a rejection.
Replies == {EmptyStr, S("file1.txt  documents  images  music")}

Failures == {S("network error")}

----------------------------------------------------------------------------
(* History of a command sequence. *)

\* The command sequence followed: cd music, cd .., cd music, from home.
ScenarioScript ==
    << <<"cd", " ", "music">>, <<"cd", " ", "..">>, <<"cd", " ", "music">> >>

\* pos commands of the sequence have been run in a row; made of them
\* re-created the session and warned of them appended the context warning.
NotStarted == [pos |-> 0, made |-> 0, warned |-> 0]

\* The history after a step: a step that runs no command leaves it; the next
\* command of the sequence advances it; any other command starts it afresh.
ScenarioCounts(from) ==
    [pos |-> from.pos + 1,
     made |-> from.made + (created' - created),
     warned |-> from.warned
                  + IF \E i \in 1..Len(appended') :
                          appended'[i] = errorLine(contextErrorText)
                    THEN 1 ELSE 0]

ScenarioAfter ==
    IF appended' = <<>> \/ appended'[1].type # "command" THEN scenario
    ELSE IF /\ scenario.pos \in 1..(Len(ScenarioScript) - 1)
            /\ appended'[1].text = ScenarioScript[scenario.pos + 1]
         THEN ScenarioCounts(scenario)
         ELSE IF appended'[1].text = ScenarioScript[1] /\ currentPath = <<S("~")>>
              THEN ScenarioCounts(NotStarted)
              ELSE NotStarted

----------------------------------------------------------------------------
(* The program. *)

Init ==
    /\ fileSystem = SeedFileSystem
    /\ currentPath = <<S("~")>>
    /\ phase = "loading"
    /\ chat = Undefined
    /\ created = 0
    /\ promptText = promptFor(<<S("~")>>)
    /\ inputDisabled = FALSE
    /\ inputValue = EmptyStr
    /\ pending = <<>>
    /\ appended = <<>>
    /\ lastRun = "none"
    /\ scenario = NotStarted

\* ai.chats.create(...) built before the new path is assigned: the
\* instruction is written for the path still current.
newChatStalePath(fs, path, n) ==
    [id |-> n, systemInstruction |-> getSystemInstruction(fs, Join(currentPath, S("/")))]

\* ai.chats.create(...) with the instruction for the current path.
newChat(fs, path, n) ==
    [id |-> n, systemInstruction |-> getSystemInstruction(fs, Join(path, S("/")))]

\* main(), lines 363-373: no API key.
MainNoKey ==
    /\ phase = "loading"
    /\ phase' = "fatal"
    /\ UNCHANGED <<fileSystem, currentPath, chat, created, promptText,
                   inputDisabled, inputValue, pending, appended, lastRun>>

\* main() enabling the input after initializeChat() whatever it returned
\* (lines 405-407 outside the `if`).
MainInitFailedEnablesInput ==
    /\ phase = "loading"
    /\ phase' = "initFailed"
    /\ inputDisabled' = FALSE
    /\ appended' = <<responseLine(S("Initializing AI Tutor...")),
                     errorLine(initFailedText)>>
    /\ UNCHANGED <<fileSystem, currentPath, chat, created, promptText,
                   inputValue, pending, lastRun>>

\* main() with initializeChat() returning false (lines 392-400, 77-84).
MainInitFailed ==
    /\ phase = "loading"
    /\ phase' = "initFailed"
    /\ inputDisabled' = TRUE
    /\ appended' = <<responseLine(S("Initializing AI Tutor...")),
                     errorLine(initFailedText)>>
    /\ UNCHANGED <<fileSystem, currentPath, chat, created, promptText,
                   inputValue, pending, lastRun>>

\* main() with initializeChat() returning true (lines 392-409, 64-76).
MainReady ==
    /\ phase = "loading"
    /\ phase' = "ready"
    /\ chat' = newChat(fileSystem, currentPath, created + 1)
    /\ created' = created + 1
    /\ inputDisabled' = FALSE
    /\ appended' = <<responseLine(S("Initializing AI Tutor...")),
                     responseLine(S("AI Tutor initialized. Start by typing a command or clicking a bubble."))>>
    /\ UNCHANGED <<fileSystem, currentPath, promptText, inputValue, pending, lastRun>>

\* The listeners of setupEventListeners exist once main() has passed line 397.
Listening == phase \in {"ready", "initFailed"}

\* A click on a command bubble (lines 338-346).
ClickBubble ==
    /\ Listening
    /\ \E c \in Bubbles : inputValue' = c
    /\ appended' = <<>>
    /\ UNCHANGED <<fileSystem, currentPath, phase, chat, created, promptText,
                   inputDisabled, pending, lastRun>>

\* handleCd when getDirectory throws: the TypeError leaves handleCd and
\* runCommand, whose promise is rejected with nobody handling it.
cdThrows(echo) ==
    /\ appended' = <<echo>>
    /\ lastRun' = "rejected"
    /\ UNCHANGED <<currentPath, promptText, chat, created>>

\* handleCd falling back to the home directory when the target is no directory.
cdFailsGoesHome(arg, echo) ==
    /\ appended' = <<echo, errorLine(cdErrorText(arg))>>
    /\ lastRun' = "fulfilled"
    /\ currentPath' = <<S("~")>>
    /\ UNCHANGED <<promptText, chat, created>>

\* handleCd without the `return` of line 227: the failure falls through to
\* the prompt update and the re-creation of the session.
cdFailsFallsThrough(arg, echo) ==
    /\ created < MaxSessions
    /\ appended' = <<echo, errorLine(cdErrorText(arg))>>
    /\ lastRun' = "fulfilled"
    /\ promptText' = promptFor(currentPath)
    /\ chat' = newChat(fileSystem, currentPath, created + 1)
    /\ created' = created + 1
    /\ UNCHANGED currentPath

\* handleCd, lines 225-228: the error line and the early return.
cdFails(arg, echo) ==
    /\ appended' = <<echo, errorLine(cdErrorText(arg))>>
    /\ lastRun' = "fulfilled"
    /\ UNCHANGED <<currentPath, promptText, chat, created>>

\* handleCd re-creating the session only for a path other than home, where
\* the session of start-up is taken to serve.
chatRecreatedExceptHome(path, echo) ==
    /\ appended' = <<echo>>
    /\ IF path = <<S("~")>>
       THEN UNCHANGED <<chat, created>>
       ELSE /\ chat' = newChat(fileSystem, path, created + 1)
            /\ created' = created + 1

\* handleCd, lines 236-242: the session is re-created for the new path.
chatRecreated(path, echo) ==
    /\ chat' = newChat(fileSystem, path, created + 1)
    /\ created' = created + 1
    /\ appended' = <<echo>>

\* handleCd undoing the navigation when ai.chats.create throws.
chatNotRecreatedRollsBack(path, echo) ==
    /\ appended' = <<echo, errorLine(contextErrorText)>>
    /\ UNCHANGED <<currentPath, promptText, chat, created>>

\* handleCd with `chat` assigned before a later statement of the try block
\* throws: the warning is appended and the new session is the active one.
chatNotRecreatedReplacesSession(path, echo) ==
    /\ currentPath' = path
    /\ promptText' = promptFor(path)
    /\ appended' = <<echo, errorLine(contextErrorText)>>
    /\ chat' = newChat(fileSystem, path, created + 1)
    /\ created' = created + 1

\* handleCd, lines 243-246: ai.chats.create threw.
chatNotRecreated(path, echo) ==
    /\ currentPath' = path
    /\ promptText' = promptFor(path)
    /\ appended' = <<echo, errorLine(contextErrorText)>>
    /\ UNCHANGED <<chat, created>>

\* handleCd, lines 210/224 and 231-246: the path is committed, the prompt
\* updated and the session re-created.
cdCommits(path, echo) ==
    /\ created < MaxSessions
    /\ lastRun' = "fulfilled"
    /\ \/ /\ currentPath' = path
          /\ promptText' = promptFor(path)
          /\ chatRecreated(path, echo)
       \/ chatNotRecreated(path, echo)

\* handleCd returning early when the target is the directory the session is
\* already in: the prompt and the session are left as they are.
handleCdSkipsSamePath(arg, echo) ==
    \E r \in {cdResult(fileSystem, currentPath, arg)} :
        \/ r.outcome = "throw" /\ cdThrows(echo)
        \/ r.outcome = "noSuchDir" /\ cdFails(arg, echo)
        \/ r.outcome = "ok" /\ r.path # currentPath /\ cdCommits(r.path, echo)
        \/ /\ r.outcome = "ok"
           /\ r.path = currentPath
           /\ appended' = <<echo>>
           /\ lastRun' = "fulfilled"
           /\ UNCHANGED <<currentPath, promptText, chat, created>>

\* handleCd(arg) inside runCommand; echo is the command line already appended.
handleCd(arg, echo) ==
    \E r \in {cdResult(fileSystem, currentPath, arg)} :
        \/ r.outcome = "throw" /\ cdThrows(echo)
        \/ r.outcome = "noSuchDir" /\ cdFails(arg, echo)
        \/ r.outcome = "ok" /\ cdCommits(r.path, echo)

\* The test of line 262 written as trimmedCommand.startsWith('cd').
isCdPrefix(trimmedCommand) == StartsWith(trimmedCommand, "cd")

\* Line 262: is the first word the navigation command?
isCd(trimmedCommand) == Head(SplitWs(trimmedCommand)) = S("cd")

\* runCommand without line 268: the input stays enabled during the call.
sendMessageInputEnabled(trimmedCommand, echo) ==
    /\ Len(pending) < MaxSessions
    /\ appended' = <<echo>>
    /\ pending' = Append(pending, [session |-> chat, message |-> trimmedCommand])
    /\ lastRun' = "pending"
    /\ UNCHANGED <<currentPath, promptText, chat, created, inputDisabled>>

\* runCommand, lines 268-271: the input is disabled and the message sent.
sendMessage(trimmedCommand, echo) ==
    /\ appended' = <<echo>>
    /\ inputDisabled' = TRUE
    /\ pending' = Append(pending, [session |-> chat, message |-> trimmedCommand])
    /\ lastRun' = "pending"
    /\ UNCHANGED <<currentPath, promptText, chat, created>>

\* runCommand(command), lines 253-271, up to its return or its await.
runCommand(command) ==
    \E trimmedCommand \in {Trim(command)} :
      \E echo \in {commandLine(promptText, trimmedCommand)} :
        \/ /\ trimmedCommand = EmptyStr
           /\ inputValue' = command
           /\ appended' = <<>>
           /\ lastRun' = "fulfilled"
           /\ UNCHANGED <<currentPath, promptText, chat, created, inputDisabled, pending>>
        \/ /\ trimmedCommand # EmptyStr
           /\ isCd(trimmedCommand)
           /\ inputValue' = EmptyStr
           /\ \E arg \in {Join(Tail(SplitWs(trimmedCommand)), S(" "))} : handleCd(arg, echo)
           /\ UNCHANGED <<inputDisabled, pending>>
        \/ /\ trimmedCommand # EmptyStr
           /\ ~isCd(trimmedCommand)
           /\ inputValue' = EmptyStr
           /\ sendMessage(trimmedCommand, echo)

\* Enter handled although the input is disabled.
KeydownEnterWhileDisabled ==
    /\ Listening
    /\ Len(pending) < MaxSessions
    /\ \E line \in Lines : runCommand(line)
    /\ UNCHANGED <<fileSystem, phase>>

\* Enter in the terminal input (lines 327-332); a disabled input gets no
\* keyboard events.
KeydownEnter ==
    /\ Listening
    /\ ~inputDisabled
    /\ \E line \in Lines : runCommand(line)
    /\ UNCHANGED <<fileSystem, phase>>

\* runCommand resumes with the reply (lines 272-275, 279-283).
settleFulfilled(text) ==
    /\ appended' = IF text # EmptyStr THEN <<responseLine(text)>> ELSE <<>>
    /\ inputDisabled' = FALSE

\* runCommand re-enabling the input at the end of `try` instead of in
\* `finally`: a rejection leaves it disabled.
settleRejectedNoFinally(message) ==
    /\ appended' = <<errorLine(S("Error: ") \o message)>>
    /\ UNCHANGED inputDisabled

\* runCommand resumes in its catch (lines 276-283).
settleRejected(message) ==
    /\ appended' = <<errorLine(S("Error: ") \o message)>>
    /\ inputDisabled' = FALSE

\* runCommand sending the message again from its catch: the rejected call
\* is reported and stays awaited.
SettleRetriesRejected ==
    /\ pending # <<>>
    /\ \/ /\ \E i \in 1..Len(pending) :
                pending' = SubSeq(pending, 1, i - 1) \o SubSeq(pending, i + 1, Len(pending))
          /\ \E text \in Replies : settleFulfilled(text)
          /\ lastRun' = "fulfilled"
       \/ /\ \E message \in Failures :
                appended' = <<errorLine(S("Error: ") \o message)>>
          /\ UNCHANGED <<pending, inputDisabled, lastRun>>
    /\ UNCHANGED <<fileSystem, currentPath, phase, chat, created, promptText, inputValue>>

\* The awaited sendMessage settles and runCommand resumes (lines 271-283).
Settle ==
    /\ pending # <<>>
    /\ \E i \in 1..Len(pending) :
          pending' = SubSeq(pending, 1, i - 1) \o SubSeq(pending, i + 1, Len(pending))
    /\ \/ \E text \in Replies : settleFulfilled(text)
       \/ \E message \in Failures : settleRejected(message)
    /\ lastRun' = "fulfilled"
    /\ UNCHANGED <<fileSystem, currentPath, phase, chat, created, promptText, inputValue>>

\* The history variable is not kept.
Untracked == UNCHANGED scenario

\* The history variable follows the commands run.
Tracked == scenario' = ScenarioAfter

Next ==
    \/ MainNoKey /\ Untracked
    \/ MainInitFailed /\ Untracked
    \/ MainReady /\ Untracked
    \/ ClickBubble /\ Untracked
    \/ KeydownEnter /\ Untracked
    \/ Settle /\ Untracked

Spec == Init /\ [][Next]_vars

\* Every issued call settles: the reply or the rejection arrives.
FairSpec == Spec /\ WF_vars(Settle /\ Untracked)

\* The same program, with the progress of the command sequence recorded.
ScenarioNext ==
    \/ MainNoKey /\ Tracked
    \/ MainInitFailed /\ Tracked
    \/ MainReady /\ Tracked
    \/ ClickBubble /\ Tracked
    \/ KeydownEnter /\ Tracked
    \/ Settle /\ Tracked

ScenarioSpec == Init /\ [][ScenarioNext]_vars

----------------------------------------------------------------------------
(* Vocabulary of the properties. *)

Idle == phase = "ready" /\ ~inputDisabled

AwaitingResponse == phase = "ready" /\ inputDisabled

Home == <<S("~")>>

Last(seq) == seq[Len(seq)]

\* The node a path names in the tree, read as the data model reads it: the
\* first segment is the root and each further segment a child of a Directory.
RECURSIVE Descend(_, _, _)
Descend(node, path, i) ==
    IF i > Len(path) THEN node
    ELSE LET name == path[i]
         IN  IF /\ node # Undefined
                /\ node.type = "dir"
                /\ Len(name) = 1
                /\ name[1] \in DOMAIN node.children
             THEN Descend(node.children[name[1]], path, i + 1)
             ELSE Undefined

NodeAt(fs, path) ==
    IF path # <<>> /\ path[1] = S("~") THEN Descend(fs["~"], path, 2) ELSE Undefined

IsDirectoryPath(fs, path) ==
    LET node == NodeAt(fs, path) IN node # Undefined /\ node.type = "dir"

\* The normalised target of `cd arg` issued in `path`.
TargetOf(path, arg) ==
    IF arg = EmptyStr \/ arg = S("~") THEN Home
    ELSE Resolve(<<>>, newPathParts(path, arg))

\* The step just taken is a runCommand that echoed a non-empty command.
Echoed == appended' # <<>> /\ appended'[1].type = "command"

EchoText == appended'[1].text

\* The text before the first blank.
FirstWord(text) ==
    IF IndexOf(text, " ") = 0 THEN text ELSE SubSeq(text, 1, IndexOf(text, " ") - 1)

\* The argument of a cd command line: its further words, one blank between.
ArgOf(text) == Join(Tail(SplitWs(text)), S(" "))

CdStep == Echoed /\ FirstWord(EchoText) = S("cd")

RemoteStep == Echoed /\ FirstWord(EchoText) # S("cd")

\* (The values are bound by \E over a singleton so that they are computed once.)
FailedCdStep ==
    CdStep /\ \E arg \in {ArgOf(EchoText)} :
                 \E target \in {TargetOf(currentPath, arg)} :
                    ~IsDirectoryPath(fileSystem, target)

SuccessfulCdStep ==
    CdStep /\ \E arg \in {ArgOf(EchoText)} :
                 \E target \in {TargetOf(currentPath, arg)} :
                    IsDirectoryPath(fileSystem, target)

HasLine(lines, line) == \E i \in 1..Len(lines) : lines[i] = line

\* The path the context of a session names.
ContextPath(session) == Split(session.systemInstruction.path, "/")

ContextInSync == chat # Undefined /\ ContextPath(chat) = currentPath

----------------------------------------------------------------------------
(* C1 *)

\* C1: in every reachable state currentPath is non-empty, starts with '~',
\* and each of its prefixes names an existing Directory of the tree.
C1_PathIsDirectory ==
    /\ Len(currentPath) >= 1
    /\ currentPath[1] = S("~")
    /\ \A n \in 1..Len(currentPath) :
          IsDirectoryPath(fileSystem, SubSeq(currentPath, 1, n))

\* A failed cd was just handled in a subdirectory.
C1_Witness ==
    /\ Len(currentPath) = 2
    /\ Len(appended) = 2
    /\ appended[2].type = "error"
    /\ appended[1].text = <<"cd", " ", "file1.txt">>

----------------------------------------------------------------------------
(* C2 *)

\* C2: a cd whose target is no existing Directory leaves currentPath, the
\* active session (the same object, none created) and the prompt as they were.
C2_FailedCdChangesNothing ==
    [][FailedCdStep =>
          /\ currentPath' = currentPath
          /\ chat' = chat
          /\ created' = created
          /\ promptText' = promptText]_vars

\* A cd to a file below a subdirectory has failed, after the session had been
\* re-created for that subdirectory.
C2_Witness ==
    /\ currentPath = <<S("~"), S("documents")>>
    /\ appended # <<>>
    /\ appended[1].text = <<"cd", " ", "report.docx">>
    /\ chat # Undefined
    /\ chat.id = 2

----------------------------------------------------------------------------
(* C3 *)

\* C3: every cd with a non-empty argument whose target is no existing
\* Directory appends the error line naming the argument, lets runCommand end
\* normally and leaves the controller in Idle.
C3_FailedCdReportsNoSuchDirectory ==
    [][(FailedCdStep /\ ArgOf(EchoText) # EmptyStr) =>
          /\ HasLine(appended', errorLine(cdErrorText(ArgOf(EchoText))))
          /\ lastRun' = "fulfilled"
          /\ Idle']_vars

----------------------------------------------------------------------------
(* C4 *)

\* C4: the session created at start-up and the one re-created by a successful
\* cd name currentPath in their context; the context stays in step with
\* currentPath over every step but a cd whose re-creation failed; so a remote
\* command issued while it is in step goes to a session naming currentPath.
C4_ContextSynchronised ==
    [][/\ (phase = "loading" /\ phase' = "ready") => ContextInSync'
       /\ (chat' # chat /\ SuccessfulCdStep) => ContextInSync'
       /\ (ContextInSync /\ ~ContextInSync') => (chat' = chat /\ SuccessfulCdStep)
       /\ (RemoteStep /\ ContextInSync) =>
             ContextPath(Last(pending').session) = currentPath]_vars

\* A remote command is in flight from a subdirectory, on a session re-created
\* for it.
C4_Witness ==
    /\ pending # <<>>
    /\ currentPath = <<S("~"), S("documents")>>
    /\ pending[1].session.id = 2
    /\ ContextPath(pending[1].session) = currentPath

----------------------------------------------------------------------------
(* C5 *)

\* C5: never more than one sendMessage call in flight; while one is awaited
\* no command is run or sent, and its settlement sends nothing and leaves
\* the text of the input where it is.
C5_OneCallInFlight ==
    [][/\ Len(pending') <= 1
       /\ AwaitingResponse =>
             /\ ~Echoed
             /\ Len(pending') <= Len(pending)
             /\ Len(pending') < Len(pending) => inputValue' = inputValue]_vars

\* A bubble was clicked while a call is in flight: its command sits in the
\* input and was not sent.
C5_Witness ==
    /\ AwaitingResponse
    /\ Len(pending) = 1
    /\ inputValue = S("ls")
    /\ pending[1].message = S("pwd")

----------------------------------------------------------------------------
(* C6 *)

\* C6: the step that settles a call leaves the controller in Idle whatever
\* the outcome, and (every call settling) AwaitingResponse leads to Idle.
C6_BackToIdle ==
    /\ [][Len(pending') < Len(pending) => Idle']_vars
    /\ (AwaitingResponse ~> Idle)

\* The controller is back in Idle after a rejected call.
C6_Witness ==
    /\ Idle
    /\ pending = <<>>
    /\ appended = <<errorLine(<<"Error: ", "network error">>)>>

----------------------------------------------------------------------------
(* C7 *)

\* C7 as stated: the session of a call being issued names the currentPath of
\* that moment, and nothing changes currentPath or the session while a call
\* is in flight.
C7_InFlightContextNamesPath ==
    [][/\ RemoteStep => ContextPath(Last(pending').session) = currentPath
       /\ pending # <<>> => (currentPath' = currentPath /\ chat' = chat)]_vars

\* C7 amended: a call is issued on the active session, whose context names
\* the currentPath of that moment if it was in step with it; nothing changes
\* currentPath or the session while a call is in flight.
C7_InFlightSessionUnchanged ==
    [][/\ RemoteStep =>
             /\ Last(pending').session = chat
             /\ ContextInSync => ContextPath(Last(pending').session) = currentPath
       /\ pending # <<>> => (~CdStep /\ currentPath' = currentPath /\ chat' = chat)]_vars

\* A call is in flight on a session left behind by a failed re-creation.
C7_Witness ==
    /\ pending # <<>>
    /\ currentPath = <<S("~"), S("documents")>>
    /\ pending[1].session = chat
    /\ ContextPath(pending[1].session) = Home

----------------------------------------------------------------------------
(* C8 *)

\* C8: a successful cd whose session is not re-created still commits its
\* target, shows it in the prompt, appends the warning and ends in Idle.
C8_SyncFailureKeepsNavigation ==
    [][(CdStep /\ chat' = chat) =>
          \E arg \in {ArgOf(EchoText)} :
             \E target \in {TargetOf(currentPath, arg)} :
                IsDirectoryPath(fileSystem, target) =>
                   /\ currentPath' = target
                   /\ promptText' = S("user@gemini:") \o Join(target, S("/")) \o S("$")
                   /\ HasLine(appended', errorLine(contextErrorText))
                   /\ lastRun' = "fulfilled"
                   /\ Idle']_vars

\* The warning was appended by a cd into a subdirectory; the old session stays.
C8_Witness ==
    /\ HasLine(appended, errorLine(contextErrorText))
    /\ currentPath = <<S("~"), S("documents")>>
    /\ promptText = <<"user@gemini:", "~", "/", "documents", "$">>
    /\ chat.id = 1
    /\ Idle

----------------------------------------------------------------------------
(* C9 *)

\* C9: the tree is the seed layout in every state, and once the session has
\* started only a successful cd changes currentPath or the active session.
C9_OnlySuccessfulCdMutates ==
    /\ fileSystem = SeedFileSystem
    /\ [][/\ fileSystem' = SeedFileSystem
          /\ (phase = "ready" /\ (currentPath' # currentPath \/ chat' # chat))
                => SuccessfulCdStep]_vars

\* A remote call was rejected while the session is in a subdirectory.
C9_Witness ==
    /\ currentPath = <<S("~"), S("documents")>>
    /\ appended = <<errorLine(<<"Error: ", "network error">>)>>
    /\ chat.id = 2

----------------------------------------------------------------------------
(* C10 *)

\* C10: a command line whose first word is cd sends nothing and leaves the
\* input enabled; any other non-empty line sends exactly its trimmed text,
\* once, and disables the input.
C10_CdIsLocal ==
    [][/\ CdStep => (pending' = pending /\ ~inputDisabled')
       /\ RemoteStep =>
             /\ Len(pending') = Len(pending) + 1
             /\ SubSeq(pending', 1, Len(pending)) = pending
             /\ Last(pending').message = EchoText
             /\ AwaitingResponse']_vars

\* After a successful cd, "cdmusic" was sent to the Response Engine.
C10_Witness ==
    /\ currentPath = <<S("~"), S("documents")>>
    /\ pending # <<>>
    /\ pending[1].message = <<"cd", "music">>

----------------------------------------------------------------------------
(* C11 *)

Min(a, b) == IF a <= b THEN a ELSE b

\* The argument is made of '..' segments only.
OnlyDotDot(parts) == \A i \in 1..Len(parts) : parts[i] = S("..")

\* C11: a cd whose argument is k '..' segments (k >= 1) appends no
\* no-such-directory error, ends normally and commits currentPath without its
\* last min(k, Len(currentPath) - 1) segments: the home sentinel stays.
C11_DotDotStopsAtHome ==
    [][CdStep =>
          \E arg \in {ArgOf(EchoText)} :
             \E parts \in {Split(arg, "/")} :
                OnlyDotDot(parts) =>
                   /\ currentPath' = SubSeq(currentPath, 1,
                         Len(currentPath) - Min(Len(parts), Len(currentPath) - 1))
                   /\ promptText' = promptFor(currentPath')
                   /\ ~HasLine(appended', errorLine(cdErrorText(arg)))
                   /\ lastRun' = "fulfilled"
                   /\ Idle']_vars

\* 'cd ../../..' was run in ~/images and left the session at home.
C11_Witness ==
    /\ currentPath = Home
    /\ appended # <<>>
    /\ appended[1].type = "command"
    /\ appended[1].prompt = <<"user@gemini:", "~", "/", "images", "$">>
    /\ appended[1].text = <<"cd", " ", "..", "/", "..", "/", "..">>

----------------------------------------------------------------------------
(* C12 *)

ScenarioDone == scenario.pos = Len(ScenarioScript)

\* C12 as stated: after cd music, cd .., cd music from home, currentPath is
\* ~/music and (no re-creation having failed) the session was re-created
\* exactly twice.
C12_RegeneratedExactlyTwice ==
    (ScenarioDone /\ scenario.warned = 0) =>
        /\ currentPath = <<S("~"), S("music")>>
        /\ scenario.made = 2

\* C12 amended: each command of the sequence re-creates the session or
\* appends the context warning, so after the three of them currentPath is
\* ~/music and the session was re-created three times less the warnings.
C12_RegeneratedOncePerCd ==
    /\ scenario.made + scenario.warned = scenario.pos
    /\ ScenarioDone => currentPath = <<S("~"), S("music")>>

\* The sequence was run with every re-creation succeeding.
C12_Witness ==
    /\ scenario = [pos |-> 3, made |-> 3, warned |-> 0]
    /\ currentPath = <<S("~"), S("music")>>
    /\ chat.id = 4

----------------------------------------------------------------------------
(* C13 *)

\* C13: a cd whose argument is the display form of a directory path P ('~',
\* or '~/a/b') commits exactly P from whatever currentPath, without a
\* no-such-directory error, and the prompt shows the argument again.
C13_DisplayPathRoundTrips ==
    [][CdStep =>
          \E arg \in {ArgOf(EchoText)} :
             \E P \in {Split(arg, "/")} :
                (IsDirectoryPath(fileSystem, P) /\ displayPath(P) = arg) =>
                   /\ currentPath' = P
                   /\ promptText' = S("user@gemini:") \o arg \o S("$")
                   /\ ~HasLine(appended', errorLine(cdErrorText(arg)))
                   /\ lastRun' = "fulfilled"]_vars

\* 'cd ~/documents' was run in ~/images.
C13_Witness ==
    /\ currentPath = <<S("~"), S("documents")>>
    /\ appended # <<>>
    /\ appended[1].type = "command"
    /\ appended[1].prompt = <<"user@gemini:", "~", "/", "images", "$">>
    /\ appended[1].text = <<"cd", " ", "~", "/", "documents">>

----------------------------------------------------------------------------
(* C14 *)

\* Initialisation has failed: no API key, or initializeChat() returned false.
InitFailed == phase \in {"fatal", "initFailed"}

\* The terminal input takes a command: its listener is set and it is enabled.
InputEnabled == Listening /\ ~inputDisabled

\* C14: once initialisation has failed it stays failed, the input is never
\* enabled, no command is run, nothing is sent, no session exists and
\* currentPath stays ['~']; the input is enabled only in the phase reached
\* by initializeChat() returning true, with the session created.
C14_FailedInitNeverEnablesInput ==
    [][/\ InitFailed => (InitFailed' /\ phase' = phase /\ ~Echoed)
       /\ InitFailed' =>
             /\ ~InputEnabled'
             /\ pending' = <<>>
             /\ chat' = Undefined
             /\ created' = 0
             /\ currentPath' = Home
             /\ lastRun' = "none"
       /\ InputEnabled' => (phase' = "ready" /\ chat' # Undefined)]_vars

\* After the failure of initializeChat() a bubble was clicked: its command
\* sits in the disabled input and nothing was run or sent.
C14_Witness ==
    /\ phase = "initFailed"
    /\ inputDisabled
    /\ inputValue = S("ls")
    /\ pending = <<>>
    /\ lastRun = "none"

----------------------------------------------------------------------------
(* C15 *)

\* The accumulation of the specified algorithm: '..' drops the last segment
\* unless only the home sentinel is left, '.' and the empty segment are
\* skipped, any other segment is added.
RECURSIVE Accumulate(_, _)
Accumulate(acc, segments) ==
    IF segments = <<>> THEN acc
    ELSE Accumulate(
            CASE Head(segments) = S("..") ->
                    IF acc = Home THEN acc ELSE SubSeq(acc, 1, Len(acc) - 1)
              [] Head(segments) \in {S("."), EmptyStr} -> acc
              [] OTHER -> acc \o <<Head(segments)>>,
            Tail(segments))

\* The accumulated sequence for the segments of an argument given in `path`:
\* from the home sentinel alone when it leads the argument, from path otherwise.
SpecifiedTarget(path, segments) ==
    IF Head(segments) = S("~") THEN Accumulate(Home, Tail(segments))
    ELSE Accumulate(path, segments)

\* No segment but the leading one is the home sentinel.
SentinelOnlyLeads(segments) ==
    \A i \in 2..Len(segments) : segments[i] # S("~")

\* No segment holds the character '~', but a leading home sentinel.
PlainNames(segments) ==
    \A i \in 1..Len(segments) :
       \/ i = 1 /\ segments[i] = S("~")
       \/ \A j \in 1..Len(segments[i]) : segments[i][j] # "~"

\* The cd just run did to `target` what the specified resolution does: it
\* committed it and showed it in the prompt if it names a Directory, appended
\* the no-such-directory error and left currentPath and the prompt if not.
ResolvedAsSpecified(arg, target) ==
    /\ lastRun' = "fulfilled"
    /\ IF IsDirectoryPath(fileSystem, target)
       THEN /\ currentPath' = target
            /\ promptText' = promptFor(target)
            /\ ~HasLine(appended', errorLine(cdErrorText(arg)))
       ELSE /\ currentPath' = currentPath
            /\ promptText' = promptText
            /\ HasLine(appended', errorLine(cdErrorText(arg)))

\* C15: for a cd with a non-empty argument made of directory names, file
\* names, absent names, '.', '..' and empty segments, after a leading '~' or
\* not: if the sequence accumulated by the specified algorithm names a
\* Directory, the cd commits it and shows it in the prompt; if not, the cd
\* appends the no-such-directory error and leaves currentPath and the prompt.
C15_ResolutionAsSpecified ==
    [][CdStep =>
          \E arg \in {ArgOf(EchoText)} :
             \E segments \in {Split(arg, "/")} :
                (arg # EmptyStr /\ SentinelOnlyLeads(segments)) =>
                   \E target \in {SpecifiedTarget(currentPath, segments)} :
                      ResolvedAsSpecified(arg, target)]_vars

\* The same for the arguments none of whose names holds the character '~'.
ResolutionAsSpecifiedOfPlainNames ==
    [][CdStep =>
          \E arg \in {ArgOf(EchoText)} :
             \E segments \in {Split(arg, "/")} :
                (arg # EmptyStr /\ PlainNames(segments)) =>
                   \E target \in {SpecifiedTarget(currentPath, segments)} :
                      ResolvedAsSpecified(arg, target)]_vars

----------------------------------------------------------------------------
(* C16 *)

\* A segment that is a name: not empty, not '.', '..' or the home sentinel.
IsName(segment) == segment \notin {EmptyStr, S("."), S(".."), S("~")}

\* The cd just run committed currentPath again: no no-such-directory error,
\* the path and the prompt as before, the run ended normally.
CommittedSamePath(arg) ==
    /\ currentPath' = currentPath
    /\ promptText' = promptFor(currentPath)
    /\ ~HasLine(appended', errorLine(cdErrorText(arg)))
    /\ lastRun' = "fulfilled"

\* C16: 'cd X/..' for a single name X (a directory, a file or a name absent
\* from the tree) succeeds and leaves currentPath where it is: '..' cancels
\* X before any existence check.
C16_DotDotCancelsName ==
    [][CdStep =>
          \E arg \in {ArgOf(EchoText)} :
             \E segments \in {Split(arg, "/")} :
                (Len(segments) = 2 /\ IsName(segments[1]) /\ segments[2] = S("..")) =>
                   CommittedSamePath(arg)]_vars

\* The same for the names X that do not begin with the character '~'.
DotDotCancelsPlainName ==
    [][CdStep =>
          \E arg \in {ArgOf(EchoText)} :
             \E segments \in {Split(arg, "/")} :
                (/\ Len(segments) = 2
                 /\ IsName(segments[1])
                 /\ segments[1][1] # "~"
                 /\ segments[2] = S("..")) =>
                   CommittedSamePath(arg)]_vars

----------------------------------------------------------------------------
(* C17 *)

\* The session was re-created for `path` by the step, or the step appended
\* the context warning and kept the session.
RecreatedOrWarned(path) ==
    \/ /\ chat' # chat
       /\ created' = created + 1
       /\ chat'.id = created'
       /\ ContextPath(chat') = path
       /\ ~HasLine(appended', errorLine(contextErrorText))
    \/ /\ chat' = chat
       /\ created' = created
       /\ HasLine(appended', errorLine(contextErrorText))

\* C17: 'cd' and 'cd ~' never fail: from any currentPath, home included,
\* they set currentPath to ['~'], show it in the prompt and go on to
\* re-create the session as every successful cd does (a new session for
\* '~', or the context warning), ending normally.
C17_CdHomeAlwaysSucceeds ==
    [][CdStep =>
          \E arg \in {ArgOf(EchoText)} :
             arg \in {EmptyStr, S("~")} =>
                /\ currentPath' = Home
                /\ promptText' = <<"user@gemini:", "~", "$">>
                /\ \A i \in 1..Len(appended') :
                      appended'[i].type = "error" =>
                         appended'[i] = errorLine(contextErrorText)
                /\ RecreatedOrWarned(Home)
                /\ lastRun' = "fulfilled"
                /\ Idle']_vars

\* 'cd' was run at home and the session re-created there.
C17_Witness ==
    /\ currentPath = Home
    /\ appended =
          <<commandLine(<<"user@gemini:", "~", "$">>, S("cd"))>>
    /\ chat.id = 2
    /\ ContextPath(chat) = Home

----------------------------------------------------------------------------
(* C18 *)

\* The step appended an error line.
ErrorAppended == \E i \in 1..Len(appended') : appended'[i].type = "error"

\* C18: an accepted remote command issues exactly one call, carrying its
\* text, and no other step issues one; the call is settled by one step, which
\* leaves no call awaited, appends at most one line, runs no command and
\* returns to Idle; a step that reports the failure of the call appends
\* 'Error: <message>' alone and sends nothing again.
C18_OneCallOneSettlement ==
    [][/\ RemoteStep =>
             /\ pending = <<>>
             /\ Len(pending') = 1
             /\ pending'[1].message = EchoText
       /\ ~RemoteStep => Len(pending') <= Len(pending)
       /\ pending # <<>> =>
             \/ pending' = pending /\ ~ErrorAppended
             \/ /\ pending' = <<>>
                /\ ~Echoed
                /\ Len(appended') <= 1
                /\ Idle'
       /\ (pending # <<>> /\ ErrorAppended) =>
             /\ \E message \in Failures :
                   appended' = <<errorLine(S("Error: ") \o message)>>
             /\ pending' = <<>>
             /\ Idle']_vars

\* A call was rejected while a bubble's command sat in the input: the error
\* is shown, nothing is awaited and the command in the input was not sent.
C18_Witness ==
    /\ Idle
    /\ pending = <<>>
    /\ appended = <<errorLine(<<"Error: ", "network error">>)>>
    /\ inputValue = S("ls")
    /\ chat.id = 1

----------------------------------------------------------------------------
(* C19 *)

\* The cd just run committed its target and appended the context warning.
SyncFailureStep ==
    HasLine(appended', errorLine(contextErrorText)) /\ SuccessfulCdStep

\* C19 as stated: a cd whose re-creation fails keeps the session, and its
\* context names the path that was current before that cd; remote commands
\* are sent on the active session; a cd that re-creates the session brings
\* the context back to currentPath.
C19_StaleContextNamesPathBefore ==
    [][/\ RemoteStep => (chat' = chat /\ Last(pending').session = chat)
       /\ \E failed \in {SyncFailureStep} :
             /\ failed =>
                   /\ chat' = chat
                   /\ ContextPath(chat') = currentPath
             /\ (~failed /\ chat' # chat /\ phase = "ready") => ContextInSync'
             /\ (~failed /\ chat' = chat) => ~SuccessfulCdStep]_vars

\* C19 amended: a cd whose re-creation fails keeps the session object, none
\* being created, so its context names the path of the last successful
\* creation: the path current before that cd if the context was in step
\* with it; remote commands are sent on the active session; a cd that
\* re-creates the session brings the context back to currentPath.
C19_StaleContextNamesLastCreation ==
    [][/\ RemoteStep => (chat' = chat /\ Last(pending').session = chat)
       /\ \E failed \in {SyncFailureStep} :
             /\ failed =>
                   /\ chat' = chat
                   /\ created' = created
                   /\ ContextInSync => ContextPath(chat') = currentPath
             /\ (~failed /\ chat' # chat /\ phase = "ready") => ContextInSync'
             /\ (~failed /\ chat' = chat) => ~SuccessfulCdStep]_vars

\* A remote command is awaited in ~/images on the session created for
\* ~/documents, kept by a failed re-creation.
C19_Witness ==
    /\ pending # <<>>
    /\ currentPath = <<S("~"), S("images")>>
    /\ pending[1].session = chat
    /\ chat.id = 2
    /\ created = 2
    /\ ContextPath(chat) = <<S("~"), S("documents")>>

============================================================================
